---- MODULE Spec2Model ----
(***************************************************************************)
(* Model of src/extract_pdf.py: extract_pdf_text and the three extractors  *)
(* it calls (extract_with_pypdf2, extract_with_pdfminer,                   *)
(* extract_with_pymupdf).                                                  *)
(*                                                                         *)
(* A Python str is a sequence of tokens (TLA+ strings): the literal        *)
(* segments of the f-strings are one token each, a character of extracted  *)
(* page text is one token.  String concatenation (+=, f-string             *)
(* interpolation) is \o.  The literals of the source are Chinese; they are *)
(* transliterated to ASCII here.                                           *)
(* An optional value (str or None) is a record [some, val].                *)
(* The output file's content is kept as the str that reading it back with  *)
(* the encoding it was written in (utf-8) gives; a text the codec cannot   *)
(* encode is one of the ways the write raises.                             *)
(* The three PDF libraries are black boxes: what they return or whether    *)
(* they raise is chosen nondeterministically at the call.                  *)
(***************************************************************************)
EXTENDS Integers, Sequences, FiniteSets, TLC

\* ---- bounds of the model ------------------------------------------------
MaxPages == 2

\* ---- inputs -----------------------------------------------------------
Whitespace == {" "}
Timestamps == {"t1", "t2"}
OutputPaths == {"None", "", "out.md"}
pdf_path == "in.pdf"

None == [some |-> FALSE, val |-> <<>>]
Some(t) == [some |-> TRUE, val |-> t]

SeqsUpTo(S, n) == UNION {[1..k -> S] : k \in 0..n}

\* texts a library can hand back for one page (or, for pdfminer, one page's
\* share of the document text): empty, whitespace only, text, and text with
\* leading whitespace
PageTexts == {<<>>, <<" ">>, <<"x">>, <<" ", "x">>}

Backends == <<"PyPDF2", "PDFMiner", "PyMuPDF">>
BackendSet == {"PyPDF2", "PDFMiner", "PyMuPDF"}

\* ---- str.strip() --------------------------------------------------------
RECURSIVE LStrip(_)
LStrip(s) == IF s # <<>> /\ Head(s) \in Whitespace THEN LStrip(Tail(s)) ELSE s

RECURSIVE RStrip(_)
RStrip(s) ==
  IF s # <<>> /\ s[Len(s)] \in Whitespace
    THEN RStrip(SubSeq(s, 1, Len(s) - 1))
    ELSE s

Strip(s) == RStrip(LStrip(s))

\* truth value of a Python str-or-None: None and "" are false
TruthyNoneOnly(v) == v.some
Truthy(v) == v.some /\ v.val # <<>>

\* truth value of output_path
PathGiven(p) == p # "None" /\ p # ""

\* ---- f-strings of the extractors ----------------------------------------
PageMarker(n, lib) == "=== page " \o ToString(n) \o " (" \o lib \o ") ==="

\* l.25-27 / l.60-62: the text one page adds to the extractor's output
PageBlockNoFilter(n, lib, page_text) ==
  <<"\n", PageMarker(n, lib), "\n">> \o page_text \o <<"\n">>
PageBlock(n, lib, page_text) ==
  IF Strip(page_text) # <<>>
    THEN <<"\n", PageMarker(n, lib), "\n">> \o page_text \o <<"\n">>
    ELSE <<>>

\* l.40-42
PDFMinerResult(t) ==
  IF Strip(t) # <<>>
    THEN Some(<<"\n", "=== PDFMiner result ===", "\n">> \o t \o <<"\n">>)
    ELSE None

\* ---- dict (insertion ordered): a sequence of [name, text] ----------------
Names(d) == {d[i].name : i \in 1..Len(d)}
Get(d, k) == d[CHOOSE i \in 1..Len(d) : d[i].name = k].text
DictSet(d, k, v) ==
  IF k \in Names(d)
    THEN [i \in 1..Len(d) |-> IF d[i].name = k THEN [name |-> k, text |-> v] ELSE d[i]]
    ELSE Append(d, [name |-> k, text |-> v])

\* ---- report (l.107-127) -------------------------------------------------
ReportHeader(now) ==
  <<"# PDF text extraction result\n\nfile: ", pdf_path, "\ntime: ", now, "\n\n">>

\* l.109-118
SelectMethodPDFMinerFirst(d) ==
  IF "PDFMiner" \in Names(d) THEN "PDFMiner"
  ELSE IF "PyMuPDF" \in Names(d) THEN "PyMuPDF"
  ELSE "PyPDF2"
SelectMethod(d) ==
  IF "PyMuPDF" \in Names(d) THEN "PyMuPDF"
  ELSE IF "PDFMiner" \in Names(d) THEN "PDFMiner"
  ELSE "PyPDF2"

\* l.120
MainSection(method, best_text) ==
  <<"## main content (", method, ")\n\n">> \o best_text \o <<"\n\n">>

RefHeader == "## other methods (reference)\n\n"

\* l.125-127: the loop over results.items()
RECURSIVE RefLoopNoFilter(_, _)
RefLoopNoFilter(d, method) ==
  IF d = <<>> THEN <<>>
  ELSE <<"### ", Head(d).name, "\n\n">> \o Head(d).text \o <<"\n\n">>
         \o RefLoopNoFilter(Tail(d), method)
RECURSIVE RefLoop(_, _)
RefLoop(d, method) ==
  IF d = <<>> THEN <<>>
  ELSE (IF Head(d).name # method
          THEN <<"### ", Head(d).name, "\n\n">> \o Head(d).text \o <<"\n\n">>
          ELSE <<>>)
         \o RefLoop(Tail(d), method)

\* l.123-127
References(d, method) ==
  IF Len(d) > 1 THEN <<RefHeader>> \o RefLoop(d, method) ELSE <<>>

\* l.107-127
Combine(d, now) ==
  ReportHeader(now)
    \o MainSection(SelectMethod(d), Get(d, SelectMethod(d)))
    \o References(d, SelectMethod(d))

VARIABLES
  pc,            \* position in extract_pdf_text / the extractor it is in
  exists,        \* os.path.exists(pdf_path)
  output_path,   \* argument of extract_pdf_text
  results,       \* the dict results
  text,          \* local of the extractor being run
  page_num,      \* local of the extractor being run
  npages,        \* len(reader.pages) / len(doc)
  rv,            \* value the extractor returned (pypdf2_text, ...)
  seen,          \* page texts the library has handed back in this call
  handles,       \* extractors whose handle on the input file is open
  calls,         \* extractors invoked so far, in order
  returned,      \* what each extractor returned
  libRaised,     \* backends whose library call raised
  libBlank,      \* backends whose library yielded only blank text
  combined_text, \* local of extract_pdf_text
  ret,           \* return value of extract_pdf_text
  escaped,       \* an exception left extract_pdf_text
  outFile,       \* content of the output file (None: does not exist)
  outOpens,      \* number of times the output file was opened
  outWrites      \* number of f.write calls that completed

vars == <<pc, exists, output_path, results, text, page_num, npages, rv, seen,
          handles, calls, returned, libRaised, libBlank, combined_text, ret,
          escaped, outFile, outOpens, outWrites>>

locals == <<text, page_num, npages, seen>>
outState == <<outFile, outOpens, outWrites>>
history == <<returned, libRaised, libBlank>>

Init ==
  /\ pc = "start"
  /\ exists \in BOOLEAN
  /\ output_path \in OutputPaths
  /\ results = <<>>
  /\ text = <<>>
  /\ page_num = 0
  /\ npages = 0
  /\ rv = None
  /\ seen = <<>>
  /\ handles = {}
  /\ calls = <<>>
  /\ returned = [b \in {} |-> None]
  /\ libRaised = {}
  /\ libBlank = {}
  /\ combined_text = <<>>
  /\ ret = None
  /\ escaped = FALSE
  /\ outFile = None
  /\ outOpens = 0
  /\ outWrites = 0

\* l.72-76
CheckExistsNoGuard ==
  /\ pc = "start"
  /\ pc' = "pypdf2_call"
  /\ UNCHANGED <<exists, output_path, results, locals, rv, handles, calls,
                 history, combined_text, ret, escaped, outState>>
CheckExists ==
  /\ pc = "start"
  /\ pc' = IF ~exists THEN "done" ELSE "pypdf2_call"
  /\ UNCHANGED <<exists, output_path, results, locals, rv, handles, calls,
                 history, combined_text, ret, escaped, outState>>

\* ---- extract_with_pypdf2 (l.12-32) --------------------------------------

\* l.30-32: except Exception; the with block (if entered) has closed the file
PyPDF2Except ==
  /\ rv' = None
  /\ handles' = handles \ {"PyPDF2"}
  /\ libRaised' = libRaised \cup {"PyPDF2"}
  /\ pc' = "pypdf2_ret"
  /\ escaped' = escaped

\* l.83, l.14-17: the call, the import and open(pdf_path, 'rb')
PyPDF2Open ==
  /\ pc = "pypdf2_call"
  /\ calls' = Append(calls, "PyPDF2")
  /\ \/ /\ PyPDF2Except
        /\ UNCHANGED locals
     \/ /\ handles' = handles \cup {"PyPDF2"}
        /\ pc' = "pypdf2_reader"
        /\ UNCHANGED <<rv, libRaised, escaped, locals>>
  /\ UNCHANGED <<exists, output_path, results, returned, libBlank,
                 combined_text, ret, outState>>

\* l.18-21: PdfReader(file), text = "", len(reader.pages)
PyPDF2Reader ==
  /\ pc = "pypdf2_reader"
  /\ \/ /\ PyPDF2Except
        /\ UNCHANGED locals
     \/ /\ \E n \in 0..MaxPages : npages' = n
        /\ text' = <<>>
        /\ page_num' = 1
        /\ seen' = <<>>
        /\ pc' = "pypdf2_loop"
        /\ UNCHANGED <<rv, handles, libRaised, escaped>>
  /\ UNCHANGED <<exists, output_path, results, calls, returned, libBlank,
                 combined_text, ret, outState>>

\* l.23-27: one iteration of the loop over enumerate(reader.pages, 1)
PyPDF2Page ==
  /\ pc = "pypdf2_loop"
  /\ page_num <= npages
  /\ \/ /\ PyPDF2Except
        /\ UNCHANGED locals
     \/ /\ \E page_text \in PageTexts :
             /\ text' = text \o PageBlock(page_num, "PyPDF2", page_text)
             /\ seen' = Append(seen, page_text)
        /\ page_num' = page_num + 1
        /\ UNCHANGED <<pc, npages, rv, handles, libRaised, escaped>>
  /\ UNCHANGED <<exists, output_path, results, calls, returned, libBlank,
                 combined_text, ret, outState>>

\* l.17, l.29: the loop is over, the with block closes the file, return text
PyPDF2Return ==
  /\ pc = "pypdf2_loop"
  /\ page_num > npages
  /\ handles' = handles \ {"PyPDF2"}
  /\ rv' = Some(text)
  /\ libBlank' = IF \A i \in 1..Len(seen) : Strip(seen[i]) = <<>>
                   THEN libBlank \cup {"PyPDF2"} ELSE libBlank
  /\ pc' = "pypdf2_ret"
  /\ UNCHANGED <<exists, output_path, results, locals, calls, returned,
                 libRaised, combined_text, ret, escaped, outState>>

\* l.83-86
StorePyPDF2ShortCircuit ==
  /\ pc = "pypdf2_ret"
  /\ returned' = [b \in DOMAIN returned \cup {"PyPDF2"} |->
                    IF b = "PyPDF2" THEN rv ELSE returned[b]]
  /\ results' = IF Truthy(rv) THEN DictSet(results, "PyPDF2", rv.val) ELSE results
  /\ rv' = None
  /\ text' = <<>>
  /\ page_num' = 0
  /\ npages' = 0
  /\ seen' = <<>>
  /\ pc' = IF Truthy(rv) THEN "check" ELSE "pdfminer_call"
  /\ UNCHANGED <<exists, output_path, handles, calls, libRaised, libBlank,
                 combined_text, ret, escaped, outState>>
StorePyPDF2 ==
  /\ pc = "pypdf2_ret"
  /\ returned' = [b \in DOMAIN returned \cup {"PyPDF2"} |->
                    IF b = "PyPDF2" THEN rv ELSE returned[b]]
  /\ results' = IF Truthy(rv) THEN DictSet(results, "PyPDF2", rv.val) ELSE results
  /\ rv' = None
  /\ text' = <<>>
  /\ page_num' = 0
  /\ npages' = 0
  /\ seen' = <<>>
  /\ pc' = "pdfminer_call"
  /\ UNCHANGED <<exists, output_path, handles, calls, libRaised, libBlank,
                 combined_text, ret, escaped, outState>>

\* ---- extract_with_pdfminer (l.34-45) -------------------------------------

\* pdfminer.high_level.extract_text: the text of the pages, joined
RECURSIVE Join(_)
Join(pages) == IF pages = <<>> THEN <<>> ELSE Head(pages) \o Join(Tail(pages))

\* l.43-45
PDFMinerExcept ==
  /\ rv' = None
  /\ libRaised' = libRaised \cup {"PDFMiner"}
  /\ pc' = "pdfminer_ret"
  /\ escaped' = escaped

\* l.90, l.36-42: the call, the import, extract_text(pdf_path) and the return
PDFMinerCall ==
  /\ pc = "pdfminer_call"
  /\ calls' = Append(calls, "PDFMiner")
  /\ \/ /\ PDFMinerExcept
        /\ UNCHANGED <<locals, libBlank>>
     \/ /\ \E pages \in SeqsUpTo(PageTexts, MaxPages) :
             /\ seen' = pages
             /\ text' = Join(pages)
             /\ rv' = PDFMinerResult(Join(pages))
             /\ libBlank' = IF Strip(Join(pages)) = <<>>
                              THEN libBlank \cup {"PDFMiner"} ELSE libBlank
        /\ pc' = "pdfminer_ret"
        /\ UNCHANGED <<page_num, npages, libRaised, escaped>>
  /\ UNCHANGED <<exists, output_path, results, handles, returned,
                 combined_text, ret, outState>>

\* l.90-93
StorePDFMiner ==
  /\ pc = "pdfminer_ret"
  /\ returned' = [b \in DOMAIN returned \cup {"PDFMiner"} |->
                    IF b = "PDFMiner" THEN rv ELSE returned[b]]
  /\ results' = IF Truthy(rv) THEN DictSet(results, "PDFMiner", rv.val) ELSE results
  /\ rv' = None
  /\ text' = <<>>
  /\ page_num' = 0
  /\ npages' = 0
  /\ seen' = <<>>
  /\ pc' = "pymupdf_call"
  /\ UNCHANGED <<exists, output_path, handles, calls, libRaised, libBlank,
                 combined_text, ret, escaped, outState>>

\* ---- extract_with_pymupdf (l.47-68) --------------------------------------

\* l.66-68: except Exception; nothing here closes doc
PyMuPDFExcept ==
  /\ rv' = None
  /\ libRaised' = libRaised \cup {"PyMuPDF"}
  /\ pc' = "pymupdf_ret"
  /\ handles' = handles
  /\ escaped' = escaped

\* l.97, l.49-55: the call, the import, fitz.open(pdf_path), len(doc)
PyMuPDFOpen ==
  /\ pc = "pymupdf_call"
  /\ calls' = Append(calls, "PyMuPDF")
  /\ \/ /\ PyMuPDFExcept
        /\ UNCHANGED locals
     \/ /\ handles' = handles \cup {"PyMuPDF"}
        /\ \E n \in 0..MaxPages : npages' = n
        /\ text' = <<>>
        /\ page_num' = 0
        /\ seen' = <<>>
        /\ pc' = "pymupdf_loop"
        /\ UNCHANGED <<rv, libRaised, escaped>>
  /\ UNCHANGED <<exists, output_path, results, returned, libBlank,
                 combined_text, ret, outState>>

\* l.57-62: one iteration of the loop over range(len(doc))
PyMuPDFPage ==
  /\ pc = "pymupdf_loop"
  /\ page_num < npages
  /\ \/ /\ PyMuPDFExcept
        /\ UNCHANGED locals
     \/ /\ \E page_text \in PageTexts :
             /\ text' = text \o PageBlock(page_num + 1, "PyMuPDF", page_text)
             /\ seen' = Append(seen, page_text)
        /\ page_num' = page_num + 1
        /\ UNCHANGED <<pc, npages, rv, handles, libRaised, escaped>>
  /\ UNCHANGED <<exists, output_path, results, calls, returned, libBlank,
                 combined_text, ret, outState>>

\* l.64-65: doc.close(); return text
PyMuPDFReturn ==
  /\ pc = "pymupdf_loop"
  /\ page_num >= npages
  /\ handles' = handles \ {"PyMuPDF"}
  /\ rv' = Some(text)
  /\ libBlank' = IF \A i \in 1..Len(seen) : Strip(seen[i]) = <<>>
                   THEN libBlank \cup {"PyMuPDF"} ELSE libBlank
  /\ pc' = "pymupdf_ret"
  /\ UNCHANGED <<exists, output_path, results, locals, calls, returned,
                 libRaised, combined_text, ret, escaped, outState>>

\* l.97-100
StorePyMuPDF ==
  /\ pc = "pymupdf_ret"
  /\ returned' = [b \in DOMAIN returned \cup {"PyMuPDF"} |->
                    IF b = "PyMuPDF" THEN rv ELSE returned[b]]
  /\ results' = IF Truthy(rv) THEN DictSet(results, "PyMuPDF", rv.val) ELSE results
  /\ rv' = None
  /\ text' = <<>>
  /\ page_num' = 0
  /\ npages' = 0
  /\ seen' = <<>>
  /\ pc' = "check"
  /\ UNCHANGED <<exists, output_path, handles, calls, libRaised, libBlank,
                 combined_text, ret, escaped, outState>>

\* ---- the rest of extract_pdf_text ---------------------------------------

\* l.102-104
CheckResultsAfterOpen ==
  /\ pc = "check"
  /\ pc' = IF results = <<>> THEN "done" ELSE "combine"
  /\ outFile' = IF PathGiven(output_path) THEN Some(<<>>) ELSE outFile
  /\ outOpens' = IF PathGiven(output_path) THEN outOpens + 1 ELSE outOpens
  /\ UNCHANGED <<exists, output_path, results, locals, rv, handles, calls,
                 history, combined_text, ret, escaped, outWrites>>
CheckResults ==
  /\ pc = "check"
  /\ pc' = IF results = <<>> THEN "done" ELSE "combine"
  /\ UNCHANGED <<exists, output_path, results, locals, rv, handles, calls,
                 history, combined_text, ret, escaped, outState>>

\* l.107-127; datetime.now() is an input
BuildReport ==
  /\ pc = "combine"
  /\ \E now \in Timestamps :
       combined_text' = Combine(results, now)
  /\ pc' = "save"
  /\ UNCHANGED <<exists, output_path, results, locals, rv, handles, calls,
                 history, ret, escaped, outState>>

\* l.135-136: except Exception; execution goes on to l.138
SaveExceptReraise ==
  /\ pc' = "done"
  /\ escaped' = TRUE
SaveExcept ==
  /\ pc' = "return"
  /\ escaped' = escaped

\* l.130: no output path
SaveSkip ==
  /\ pc = "save"
  /\ ~PathGiven(output_path)
  /\ pc' = "return"
  /\ UNCHANGED <<exists, output_path, results, locals, rv, handles, calls,
                 history, combined_text, ret, escaped, outState>>

\* l.130-132: open(output_path, 'w', encoding='utf-8') creates or truncates
\* the file, or raises
SaveOpen ==
  /\ pc = "save"
  /\ PathGiven(output_path)
  /\ \/ /\ SaveExcept
        /\ UNCHANGED outState
     \/ /\ outFile' = Some(<<>>)
        /\ outOpens' = outOpens + 1
        /\ outWrites' = outWrites
        /\ pc' = "save_write"
        /\ escaped' = escaped
  /\ UNCHANGED <<exists, output_path, results, locals, rv, handles, calls,
                 history, combined_text, ret>>

\* l.133: what a completed f.write leaves in the file
FileWriteBestOnly(t) == Some(Get(results, SelectMethod(results)))
FileWrite(t) == Some(t)

\* l.133-134: f.write(combined_text) and the end of the with block; a write
\* that raises leaves a proper prefix of the text in the file (nothing, or
\* all but the end)
SaveWrite ==
  /\ pc = "save_write"
  /\ \/ /\ SaveExcept
        /\ \E k \in {0, Len(combined_text) - 1} :
             outFile' = Some(SubSeq(combined_text, 1, k))
        /\ UNCHANGED <<outOpens, outWrites>>
     \/ /\ outFile' = FileWrite(combined_text)
        /\ outWrites' = outWrites + 1
        /\ outOpens' = outOpens
        /\ pc' = "return"
        /\ escaped' = escaped
  /\ UNCHANGED <<exists, output_path, results, locals, rv, handles, calls,
                 history, combined_text, ret>>

\* l.138
Return ==
  /\ pc = "return"
  /\ ret' = Some(combined_text)
  /\ pc' = "done"
  /\ UNCHANGED <<exists, output_path, results, locals, rv, handles, calls,
                 history, combined_text, escaped, outState>>

Next ==
  \/ CheckExists
  \/ PyPDF2Open
  \/ PyPDF2Reader
  \/ PyPDF2Page
  \/ PyPDF2Return
  \/ StorePyPDF2
  \/ PDFMinerCall
  \/ StorePDFMiner
  \/ PyMuPDFOpen
  \/ PyMuPDFPage
  \/ PyMuPDFReturn
  \/ StorePyMuPDF
  \/ CheckResults
  \/ BuildReport
  \/ SaveSkip
  \/ SaveOpen
  \/ SaveWrite
  \/ Return

Spec == Init /\ [][Next]_vars
(***************************************************************************)
(* Properties                                                              *)
(***************************************************************************)

NonEmptyText(v) == v.some /\ Len(v.val) > 0

\* backends whose extractor returned non-empty text
Succeeded == {b \in DOMAIN returned : NonEmptyText(returned[b])}

Rank(b) == CASE b = "PyMuPDF" -> 3 [] b = "PDFMiner" -> 2 [] b = "PyPDF2" -> 1
Highest == CHOOSE b \in Succeeded : \A c \in Succeeded : Rank(c) <= Rank(b)

Finished == pc = "done" /\ exists /\ DOMAIN returned = BackendSet

\* reading a report back
Positions(r, tok) == {i \in 1..Len(r) : r[i] = tok}
Occurrences(sub, r) ==
  Cardinality({i \in 1..(Len(r) - Len(sub) + 1) :
                 SubSeq(r, i, i + Len(sub) - 1) = sub})
MainToken == "## main content ("
RefToken == "### "
RECURSIVE RefNames(_)
RefNames(r) ==
  IF Len(r) < 2 THEN <<>>
  ELSE (IF Head(r) = RefToken THEN <<r[2]>> ELSE <<>>) \o RefNames(Tail(r))
IsSuccOther(b) == b \in Succeeded /\ b # Highest
IsPrefix(s, t) == Len(s) <= Len(t) /\ s = SubSeq(t, 1, Len(s))

\* C1: whenever at least one backend succeeded, the report returned has one
\* main section, labeled with the highest-priority successful backend
\* (PyMuPDF > PDFMiner > PyPDF2) and holding that backend's text.
C1_MainIsHighestPriority ==
  (Finished /\ Succeeded # {}) =>
    /\ ret.some
    /\ Cardinality(Positions(ret.val, MainToken)) = 1
    /\ \A i \in Positions(ret.val, MainToken) :
         LET t == returned[Highest].val IN
           /\ Len(ret.val) >= i + 3 + Len(t)
           /\ ret.val[i + 1] = Highest
           /\ ret.val[i + 2] = ")\n\n"
           /\ SubSeq(ret.val, i + 3, i + 2 + Len(t)) = t
           /\ ret.val[i + 3 + Len(t)] = "\n\n"

C1_Witness ==
  /\ Finished
  /\ ret.some
  /\ "PyMuPDF" \notin Succeeded
  /\ Succeeded = {"PyPDF2", "PDFMiner"}

\* C2: when the input path does not exist, no extractor is ever invoked, the
\* output file is never opened, created or written, and the function returns
\* None.
C2_MissingInputFailsFast ==
  ~exists =>
    /\ calls = <<>>
    /\ outFile = None /\ outOpens = 0 /\ outWrites = 0
    /\ ret = None
    /\ ~escaped
    /\ pc \in {"start", "done"}

C2_Witness == pc = "done" /\ ~exists /\ PathGiven(output_path)

\* C3: no exception leaves extract_pdf_text, and once an extractor's result
\* has been collected the backend is a key of results exactly when the
\* extractor returned non-empty text (and results then holds that text); a
\* backend whose library raised or yielded only blank text is not a key.
C3_ResultsExactlySuccesses ==
  /\ ~escaped
  /\ Names(results) \subseteq DOMAIN returned
  /\ \A b \in DOMAIN returned :
       /\ (b \in Names(results)) <=> NonEmptyText(returned[b])
       /\ b \in Names(results) => Get(results, b) = returned[b].val
       /\ b \in (libRaised \cup libBlank) => b \notin Names(results)

C3_Witness ==
  /\ Finished
  /\ "PyPDF2" \in libBlank
  /\ "PDFMiner" \in libRaised
  /\ "PyMuPDF" \in Names(results)

\* C4: when the input exists and no backend succeeded, the function returns
\* None and the output file is never opened, created or written.
C4_NoSuccessNoOutput ==
  (exists /\ DOMAIN returned = BackendSet /\ Succeeded = {}) =>
    /\ ret = None
    /\ outFile = None /\ outOpens = 0 /\ outWrites = 0
    /\ pc \in {"check", "done"}

C4_Witness ==
  /\ Finished
  /\ Succeeded = {}
  /\ PathGiven(output_path)
  /\ libRaised # {} /\ libBlank # {}

\* C5: in the returned report, with one successful backend there is no
\* reference header and no reference section; with more, there is one
\* reference header after the main section and, after it, one reference
\* section per successful backend other than the primary, in the order
\* PyPDF2, PDFMiner, PyMuPDF; each successful backend's text occurs exactly
\* once in the report.
C5_ReferenceSections ==
  (Finished /\ Succeeded # {}) =>
    /\ ret.some
    /\ RefNames(ret.val) = SelectSeq(Backends, IsSuccOther)
    /\ Cardinality(Positions(ret.val, RefHeader)) =
         (IF Cardinality(Succeeded) > 1 THEN 1 ELSE 0)
    /\ \A h \in Positions(ret.val, RefHeader) :
         /\ \A m \in Positions(ret.val, MainToken) :
              h = m + 4 + Len(returned[Highest].val)
         /\ \A k \in Positions(ret.val, RefToken) : h < k
    /\ \A b \in Succeeded : Occurrences(returned[b].val, ret.val) = 1

C5_Witness ==
  /\ Finished
  /\ ret.some
  /\ Succeeded = BackendSet

\* C6: the extractors are invoked in the order PyPDF2, PDFMiner, PyMuPDF,
\* each at most once; when the function is over (input existing) each has
\* been invoked exactly once whatever the earlier ones did; and the output
\* file is touched only after all three have returned.
C6_AllInvokedInOrder ==
  /\ IsPrefix(calls, Backends)
  /\ (pc = "done" /\ exists) => calls = Backends
  /\ (outOpens > 0 \/ outFile.some) =>
       /\ calls = Backends
       /\ DOMAIN returned = BackendSet
       /\ pc \in {"save_write", "return", "done"}

C6_Witness ==
  /\ Finished
  /\ "PyPDF2" \in Succeeded
  /\ "PDFMiner" \in libRaised
  /\ "PyMuPDF" \in libBlank
  /\ outWrites = 1

\* the timestamp the report carries
ReportTime(r) == r[4]

\* C7: with at least one success and an output path, when opening or writing
\* the output file fails nothing propagates and the function returns the
\* report built from results, the same as when the write succeeds.
C7_WriteFailureHarmless ==
  (pc = "done" /\ exists /\ Succeeded # {} /\ PathGiven(output_path)
     /\ outWrites = 0) =>
    /\ ~escaped
    /\ ret.some
    /\ Len(ret.val) >= 4
    /\ ret.val = Combine(results, ReportTime(ret.val))
    /\ ret.val = combined_text

C7_Witness ==
  /\ pc = "done"
  /\ PathGiven(output_path)
  /\ outOpens = 1 /\ outWrites = 0
  /\ ret.some
  /\ outFile # ret

\* C8: when the function has returned a report and the write succeeded, the
\* output file holds exactly the returned text, written by a single write
\* after a single open.
C8_RoundTrip ==
  (pc = "done" /\ outWrites > 0) =>
    /\ ret.some
    /\ outFile.some
    /\ outFile.val = ret.val
    /\ outWrites = 1 /\ outOpens = 1

C8_Witness ==
  /\ pc = "done"
  /\ outWrites = 1
  /\ Cardinality(Succeeded) >= 2

\* page markers of an extractor's output
MarkerTokens(lib) == {PageMarker(n, lib) : n \in 1..(MaxPages + 1)}
AllMarkerTokens == UNION {MarkerTokens(lib) : lib \in BackendSet}
MarkerNum(tok) ==
  CHOOSE n \in 1..(MaxPages + 1) : \E lib \in BackendSet : tok = PageMarker(n, lib)
IsMarker(tok) == tok \in AllMarkerTokens
RECURSIVE MarkerNums(_)
MarkerNums(t) ==
  IF t = <<>> THEN <<>>
  ELSE (IF IsMarker(Head(t)) THEN <<MarkerNum(Head(t))>> ELSE <<>>)
         \o MarkerNums(Tail(t))
RECURSIVE NonBlankFrom(_, _)
NonBlankFrom(pages, n) ==
  IF pages = <<>> THEN <<>>
  ELSE (IF \E i \in 1..Len(Head(pages)) : Head(pages)[i] \notin Whitespace
          THEN <<n>> ELSE <<>>)
         \o NonBlankFrom(Tail(pages), n + 1)
NonBlankPages(pages) == NonBlankFrom(pages, 1)
ExtractorReturned == pc \in {"pypdf2_ret", "pdfminer_ret", "pymupdf_ret"}
PerPageReturned == pc \in {"pypdf2_ret", "pymupdf_ret"}
OwnLib == CASE pc = "pypdf2_ret" -> "PyPDF2"
            [] pc = "pymupdf_ret" -> "PyMuPDF"
            [] OTHER -> "PDFMiner"

C10_HandlesClosed ==
  /\ "PyPDF2" \in handles => pc \in {"pypdf2_reader", "pypdf2_loop"}
  /\ "PyMuPDF" \in handles => pc = "pymupdf_loop"
  /\ pc = "done" => handles = {}
====
